---- MODULE Spec2Model ----
(***************************************************************************)
(* A model of the vending machine of src/VENDING1.PY: the shelves          *)
(* (ItemShelf), the inventory (Inventory) and the controller               *)
(* (VendingMachine), with the operations a caller can run on them; and of  *)
(* the Logger registry and the expense splitter of src/unnamed/part_000.   *)
(*                                                                         *)
(* Spec       the controller with its inventory: insert_coin,              *)
(*            select_product and the stocking of shelves (add_item).       *)
(* SpecCalls  Spec with the other public methods called from outside too:  *)
(*            get_item, reset, has_items, display.                         *)
(* SpecShelf  one ItemShelf alone under add_item / remove_item, with the   *)
(*            history of what was added and what was returned.             *)
(*                                                                         *)
(* SpecLogger the keyed Logger registry of src/unnamed/part_000, with       *)
(*            threads inside Logger.get_instance.                          *)
(* SpecSplit  the balance sheets of src/unnamed/part_000 under             *)
(*            create_expense.                                              *)
(*                                                                         *)
(* Python's None is the empty sequence here and a present value v is <<v>>,*)
(* so that an optional integer, string or record compares with None.       *)
(***************************************************************************)
EXTENDS Integers, Sequences, FiniteSets

VARIABLES
    state,            \* VendingMachine.state: "IDLE" or "HAS_MONEY"
    shelves,          \* VendingMachine.inventory.shelves: a list of ItemShelf
    inserted_coins,   \* VendingMachine.inserted_coins: a list of Coin names
    selected_code,    \* VendingMachine.selected_code: None or <<code>>
    result,           \* what the last call gave: its exception, its output, its locals
    paid_since,       \* history: value of the coins inserted since the last select_product
    one_shelf,        \* SpecShelf: the ItemShelf under test
    added,            \* SpecShelf history: every item added, in order
    removed,          \* SpecShelf history: every item remove_item returned, in order
    restocked,        \* SpecShelf history: adds made on a shelf emptied by removals
    shelf_op,         \* SpecShelf: the last ItemShelf operation
    lock,             \* Logger._lock: 0 when free, else the thread that holds it
    instances,        \* Logger._instances: a dict from key to Logger (an index of loggers)
    loggers,          \* every Logger object created, in the order of creation
    pc,               \* each thread's place in Logger.get_instance
    call,             \* each thread's arguments: config_level and config_appender
    handed,           \* history: the (key, Logger, appender passed) of every return
    calls,            \* history: the number of get_instance calls started
    sheets,           \* each user's expense_sheet (UserExpenseBalanceSheet), by user_id
    expense,          \* the last create_expense call: its payer and its exception
    expenses          \* history: the number of create_expense calls made

machineVars == <<state, shelves, inserted_coins, selected_code, result, paid_since>>
shelfVars == <<one_shelf, added, removed, restocked, shelf_op>>
loggerVars == <<lock, instances, loggers, pc, call, handed, calls>>
splitVars == <<sheets, expense, expenses>>
vars == <<state, shelves, inserted_coins, selected_code, result, paid_since,
          one_shelf, added, removed, restocked, shelf_op,
          lock, instances, loggers, pc, call, handed, calls,
          sheets, expense, expenses>>

----------------------------------------------------------------------------
(* Bounds of the model *)

\* Inventory(size): the number of shelves (the program builds Inventory(10)).
NumShelves == 2

\* The most items the inventory holds at once, over all its shelves.
MaxItems == 3

\* The most coins inserted in one transaction.
MaxCoins == 2

\* SpecShelf: the most items ever added to the shelf under test.
MaxAdds == 3

\* SpecLogger: the number of threads that call Logger.get_instance.
NumThreads == 2

\* SpecLogger: the most get_instance calls started, over all threads.
MaxCalls == 3

\* SpecSplit: the most splits in one expense.
MaxSplits == 2

\* SpecSplit: the most create_expense calls made.
MaxExpenses == 2

----------------------------------------------------------------------------
(* Values *)

None == <<>>

Some(v) == <<v>>

\* The code of the first shelf: ItemShelf(100 + i).
BaseCode == 100

\* class Coin(Enum): the denominations and their values.
CoinValue == [ONE |-> 1, TWO |-> 2, FIVE |-> 5, TEN |-> 10]

Coin == DOMAIN CoinValue

\* The coins a caller inserts: two of the four denominations.
CoinInputs == {"FIVE", "TEN"}

\* class Item: a type and a price.
Item(item_type, price) == [type |-> item_type, price |-> price]

\* The items the stocking of a shelf draws from: load_items' first two kinds.
ItemInputs == {Item("Coke", 10), Item("Pepsi", 15)}

\* The codes a caller may pass: every shelf's code and one unknown code on each side.
CodeInputs == (BaseCode - 1) .. (BaseCode + NumShelves)

\* sum(c.value for c in coins)
RECURSIVE SumValues(_)
SumValues(coins) ==
    IF coins = <<>> THEN 0
    ELSE CoinValue[Head(coins)] + SumValues(Tail(coins))

----------------------------------------------------------------------------
(* class ItemShelf *)

ItemShelf(code) == [code |-> code, items |-> <<>>, is_sold_out |-> FALSE]

\* A changed add_item: the item is appended and is_sold_out is left as it was.
add_item_keeps_flag(shelf, item) ==
    [shelf EXCEPT !.items = Append(@, item)]

ItemShelf_add_item(shelf, item) ==
    [shelf EXCEPT !.items = Append(@, item), !.is_sold_out = FALSE]

\* A changed remove_item: the failed attempt on an empty shelf leaves the flag alone.
remove_item_fail_keeps_flag(shelf) ==
    IF shelf.items = <<>>
    THEN [shelf  |-> shelf,
          item   |-> None,
          raised |-> Some("Item out of stock")]
    ELSE LET rest == Tail(shelf.items) IN
         [shelf  |-> [shelf EXCEPT !.items = rest,
                                   !.is_sold_out = IF rest = <<>> THEN TRUE ELSE @],
          item   |-> Some(Head(shelf.items)),
          raised |-> None]

\* A changed remove_item: items.pop() for items.pop(0), the newest item first.
remove_item_lifo(shelf) ==
    IF shelf.items = <<>>
    THEN [shelf  |-> [shelf EXCEPT !.is_sold_out = TRUE],
          item   |-> None,
          raised |-> Some("Item out of stock")]
    ELSE LET n == Len(shelf.items)
             rest == SubSeq(shelf.items, 1, n - 1) IN
         [shelf  |-> [shelf EXCEPT !.items = rest,
                                   !.is_sold_out = IF rest = <<>> THEN TRUE ELSE @],
          item   |-> Some(shelf.items[n]),
          raised |-> None]

\* The shelf after the call, the item returned and the exception raised.
ItemShelf_remove_item(shelf) ==
    IF shelf.items = <<>>
    THEN [shelf  |-> [shelf EXCEPT !.is_sold_out = TRUE],
          item   |-> None,
          raised |-> Some("Item out of stock")]
    ELSE LET rest == Tail(shelf.items) IN
         [shelf  |-> [shelf EXCEPT !.items = rest,
                                   !.is_sold_out = IF rest = <<>> THEN TRUE ELSE @],
          item   |-> Some(Head(shelf.items)),
          raised |-> None]

----------------------------------------------------------------------------
(* class Inventory *)

Inventory(size) == [i \in 1 .. size |-> ItemShelf(BaseCode + (i - 1))]

\* for shelf in self.shelves: if shelf.code == code: the first match, 0 if none.
FindShelf(shs, code) ==
    LET hits == {i \in DOMAIN shs : shs[i].code = code} IN
    IF hits = {} THEN 0
    ELSE CHOOSE i \in hits : \A j \in hits : i <= j

\* A changed add_item: an unknown code gets a new shelf instead of an error.
add_item_creates_shelf(shs, code, item) ==
    LET i == FindShelf(shs, code) IN
    IF i = 0
    THEN [shelves |-> Append(shs, ItemShelf_add_item(ItemShelf(code), item)),
          raised  |-> None]
    ELSE [shelves |-> [shs EXCEPT ![i] = ItemShelf_add_item(@, item)],
          raised  |-> None]

\* A changed add_item: the loop does not return after the first match and an
\* unknown code stocks the first shelf.
add_item_falls_to_first(shs, code, item) ==
    LET i == FindShelf(shs, code) IN
    IF i = 0
    THEN [shelves |-> [shs EXCEPT ![1] = ItemShelf_add_item(@, item)],
          raised  |-> Some("Invalid shelf code")]
    ELSE [shelves |-> [shs EXCEPT ![i] = ItemShelf_add_item(@, item)],
          raised  |-> None]

Inventory_add_item(shs, code, item) ==
    LET i == FindShelf(shs, code) IN
    IF i = 0
    THEN [shelves |-> shs, raised |-> Some("Invalid shelf code")]
    ELSE [shelves |-> [shs EXCEPT ![i] = ItemShelf_add_item(@, item)],
          raised  |-> None]

\* A changed get_item: an unknown code is reported as an empty shelf.
get_item_unknown_as_empty(shs, code) ==
    LET i == FindShelf(shs, code) IN
    IF i = 0
    THEN [shelves |-> shs, item |-> None, raised |-> Some("Item out of stock")]
    ELSE LET r == ItemShelf_remove_item(shs[i]) IN
         [shelves |-> [shs EXCEPT ![i] = r.shelf],
          item    |-> r.item,
          raised  |-> r.raised]

Inventory_get_item(shs, code) ==
    LET i == FindShelf(shs, code) IN
    IF i = 0
    THEN [shelves |-> shs, item |-> None, raised |-> Some("Invalid shelf code")]
    ELSE LET r == ItemShelf_remove_item(shs[i]) IN
         [shelves |-> [shs EXCEPT ![i] = r.shelf],
          item    |-> r.item,
          raised  |-> r.raised]

\* A changed has_items: it trusts the is_sold_out flags instead of counting items.
has_items_by_flag(shs) ==
    \E i \in DOMAIN shs : ~shs[i].is_sold_out

\* any(len(shelf.items) > 0 for shelf in self.shelves)
Inventory_has_items(shs) ==
    \E i \in DOMAIN shs : Len(shs[i].items) > 0

\* The lines display prints, one per shelf: its code, its item count, its flag.
Inventory_display(shs) ==
    [i \in DOMAIN shs |->
        [code |-> shs[i].code, items |-> Len(shs[i].items),
         sold_out |-> shs[i].is_sold_out]]

----------------------------------------------------------------------------
(* class VendingMachine *)

\* One line of output: print(...). Fields a line does not carry are None.
Line(kind, text, value, price, paid, change) ==
    [kind |-> kind, text |-> text, value |-> value,
     price |-> price, paid |-> paid, change |-> change]

\* What a call gave its caller and its observer: the exception that left the call
\* (raised), the value it returned (returned: no method here returns one), the line
\* it printed, and the call's arguments and locals (code, coin, item, total).
Result(op, code, coin, item, total, raised, printed) ==
    [op |-> op, code |-> code, coin |-> coin, item |-> item, total |-> total,
     raised |-> raised, returned |-> None, printed |-> printed]

\* VendingMachine.__init__, with Inventory(NumShelves) for Inventory(10).
VendingMachine ==
    [state |-> "IDLE", shelves |-> Inventory(NumShelves),
     inserted_coins |-> <<>>, selected_code |-> None]

\* A changed reset: the state's name is misspelt.
reset_misspells_state(m) ==
    [m EXCEPT !.state = "Idle", !.inserted_coins = <<>>, !.selected_code = None]

\* A changed reset: the selected code is left set.
reset_keeps_selected(m) ==
    [m EXCEPT !.state = "IDLE", !.inserted_coins = <<>>]

\* A changed reset: the inserted coins are left in the list.
reset_keeps_coins(m) ==
    [m EXCEPT !.state = "IDLE", !.selected_code = None]

reset(m) ==
    [m EXCEPT !.state = "IDLE", !.inserted_coins = <<>>, !.selected_code = None]

\* A changed insert_coin: the coin is appended and the state is left as it was.
insert_coin_keeps_state(m, coin) ==
    IF m.state \notin {"IDLE", "HAS_MONEY"}
    THEN [m   |-> m,
          res |-> Result("insert_coin", None, Some(coin), None, None,
                         Some("Can't insert coins in current state"), None)]
    ELSE [m   |-> [m EXCEPT !.inserted_coins = Append(@, coin)],
          res |-> Result("insert_coin", None, Some(coin), None, None, None,
                         Some(Line("Coin inserted", coin, Some(CoinValue[coin]),
                                   None, None, None)))]

insert_coin(m, coin) ==
    IF m.state \notin {"IDLE", "HAS_MONEY"}
    THEN [m   |-> m,
          res |-> Result("insert_coin", None, Some(coin), None, None,
                         Some("Can't insert coins in current state"), None)]
    ELSE [m   |-> [m EXCEPT !.inserted_coins = Append(@, coin),
                            !.state = "HAS_MONEY"],
          res |-> Result("insert_coin", None, Some(coin), None, None, None,
                         Some(Line("Coin inserted", coin, Some(CoinValue[coin]),
                                   None, None, None)))]

\* A changed select_line: the change is the whole amount paid.
select_line_change_is_total(g, total) ==
    IF g.raised # None
    THEN Line("Error", g.raised[1], None, None, None, None)
    ELSE IF total < g.item[1].price
    THEN Line("Error", "Insufficient funds", None,
              Some(g.item[1].price), Some(total), None)
    ELSE Line("Dispensing", g.item[1].type, None, None, None, Some(total))

\* The line select_product prints once get_item has answered g with `total` paid.
select_line(g, total) ==
    IF g.raised # None
    THEN Line("Error", g.raised[1], None, None, None, None)
    ELSE IF total < g.item[1].price
    THEN Line("Error", "Insufficient funds", None,
              Some(g.item[1].price), Some(total), None)
    ELSE Line("Dispensing", g.item[1].type, None, None, None,
              Some(total - g.item[1].price))

\* A changed select_product: the state is not checked.
select_product_unguarded(m, code) ==
    LET selected == [m EXCEPT !.selected_code = Some(code)]
        total == SumValues(selected.inserted_coins)
        g == Inventory_get_item(selected.shelves, code)
        taken == [selected EXCEPT !.shelves = g.shelves]
    IN  [m   |-> reset(taken),
         res |-> Result("select_product", Some(code), None, g.item,
                        Some(total), None, Some(select_line(g, total)))]

select_product(m, code) ==
    IF m.state # "HAS_MONEY"
    THEN [m   |-> m,
          res |-> Result("select_product", Some(code), None, None, None,
                         Some("Insert coins before selecting item"), None)]
    ELSE LET selected == [m EXCEPT !.selected_code = Some(code)]
             total == SumValues(selected.inserted_coins)
             g == Inventory_get_item(selected.shelves, code)
             taken == [selected EXCEPT !.shelves = g.shelves]
         IN  [m   |-> reset(taken),
              res |-> Result("select_product", Some(code), None, g.item,
                             Some(total), None, Some(select_line(g, total)))]

\* The number of items on all shelves of a list of shelves.
RECURSIVE Stock(_)
Stock(shs) ==
    IF shs = <<>> THEN 0 ELSE Len(Head(shs).items) + Stock(Tail(shs))

----------------------------------------------------------------------------
(* Spec: the controller and its inventory *)

NoCall == Result("none", None, None, None, None, None, None)

MachineInit ==
    /\ state = VendingMachine.state
    /\ shelves = VendingMachine.shelves
    /\ inserted_coins = VendingMachine.inserted_coins
    /\ selected_code = VendingMachine.selected_code
    /\ result = NoCall
    /\ paid_since = 0

ShelfInit ==
    /\ one_shelf = ItemShelf(BaseCode)
    /\ added = <<>>
    /\ removed = <<>>
    /\ restocked = 0
    /\ shelf_op = "init"

----------------------------------------------------------------------------
(* class Logger of src/unnamed/part_000: the keyed singleton registry *)

Threads == 1 .. NumThreads

\* The levels a caller configures: two of LogLevel's three.
LevelInputs == {"INFO", "ERROR"}

\* The appender objects a caller passes: two ConsoleAppender objects and one
\* FileAppender object.
AppenderInputs ==
    {[id |-> "console1", class |-> "ConsoleAppender"],
     [id |-> "console2", class |-> "ConsoleAppender"],
     [id |-> "file1", class |-> "FileAppender"]}

\* Logger.__init__
Logger(config_level, config_appender) ==
    [config_level |-> config_level, config_appender |-> config_appender]

\* key = (config_level, type(config_appender).__name__)
Key(config_level, config_appender) == <<config_level, config_appender.class>>

\* The key of the call thread t is in.
KeyOf(t) == Key(call[t][1].config_level, call[t][1].config_appender)

\* A changed lock: acquire never waits.
acquire_never_waits(l) == TRUE

\* with cls._lock: the lock can be taken when no thread holds it.
LockIsFree(l) == l = 0

\* cls._instances[key] = value
SetItem(dict, key, value) ==
    [k \in DOMAIN dict \cup {key} |-> IF k = key THEN value ELSE dict[k]]

LoggerInit ==
    /\ lock = 0
    /\ instances = [k \in {} |-> 0]
    /\ loggers = <<>>
    /\ pc = [t \in Threads |-> "idle"]
    /\ call = [t \in Threads |-> None]
    /\ handed = {}
    /\ calls = 0

----------------------------------------------------------------------------
(* The expense splitter of src/unnamed/part_000: balance sheets *)

\* The users of the demo, by user_id.
Users == {"U1001", "U2001", "U3001"}

\* class Balance
Balance == [amount_owe |-> 0, amount_get_back |-> 0]

\* class UserExpenseBalanceSheet
UserExpenseBalanceSheet ==
    [total_your_expense |-> 0, total_payment |-> 0, total_you_owe |-> 0,
     total_you_get_back |-> 0, user_vs_balance |-> [u \in {} |-> Balance]]

\* class Split
Split(user, amount_owe) == [user |-> user, amount_owe |-> amount_owe]

\* The amounts a split may carry.
SplitAmounts == {1, 2}

\* Every list of at most n splits that names each user at most once.
RECURSIVE SplitLists(_)
SplitLists(n) ==
    IF n = 0 THEN {<<>>}
    ELSE LET shorter == SplitLists(n - 1)
             longer(l) == {Append(l, Split(u, a)) :
                              u \in Users \ {l[i].user : i \in DOMAIN l},
                              a \in SplitAmounts}
         IN  shorter \cup UNION {longer(l) : l \in {x \in shorter : Len(x) = n - 1}}

\* The totals a caller states for an expense.
AmountInputs == {2, 3}

\* ExpenseSplitType, and one value that is none of its members.
SplitTypeInputs == {"EQUAL", "UNEQUAL", "PERCENTAGE", "OTHER"}

\* sum(split.amount_owe for split in splits)
RECURSIVE SumOwed(_)
SumOwed(splits) ==
    IF splits = <<>> THEN 0 ELSE Head(splits).amount_owe + SumOwed(Tail(splits))

\* EqualExpenseSplit.validate: the exception raised, or None. per_head is
\* total_amount / len(splits); an integer amount equals it exactly when
\* amount * len(splits) = total_amount.
EqualExpenseSplit_validate(splits, total_amount) ==
    IF Len(splits) = 0 THEN Some("ZeroDivisionError")
    ELSE IF \E i \in DOMAIN splits : splits[i].amount_owe * Len(splits) # total_amount
    THEN Some("Invalid equal split")
    ELSE None

\* UnequalExpenseSplit.validate; round(x, 2) of an integer is the integer.
UnequalExpenseSplit_validate(splits, total_amount) ==
    IF SumOwed(splits) # total_amount
    THEN Some("Unequal split doesn't sum up to total")
    ELSE None

\* PercentageExpenseSplit.validate
PercentageExpenseSplit_validate(splits, total_amount) ==
    IF SumOwed(splits) # total_amount
    THEN Some("Percentage split doesn't sum up to total")
    ELSE None

\* SplitFactory.get_strategy followed by strategy.validate
validate(split_type, splits, total_amount) ==
    IF split_type = "EQUAL" THEN EqualExpenseSplit_validate(splits, total_amount)
    ELSE IF split_type = "UNEQUAL" THEN UnequalExpenseSplit_validate(splits, total_amount)
    ELSE IF split_type = "PERCENTAGE"
    THEN PercentageExpenseSplit_validate(splits, total_amount)
    ELSE Some("Invalid split type")

\* if uid not in user_vs_balance: user_vs_balance[uid] = Balance()
WithBalance(dict, uid) ==
    IF uid \in DOMAIN dict THEN dict
    ELSE [k \in DOMAIN dict \cup {uid} |-> IF k = uid THEN Balance ELSE dict[k]]

\* A changed loop body: the payer's balance with the user is not updated.
update_split_forgets_payer_balance(shs, paid_by, split) ==
    LET user == split.user
        owe_amount == split.amount_owe
    IN  IF user = paid_by
        THEN [shs EXCEPT ![paid_by].total_your_expense = @ + owe_amount]
        ELSE LET paid == [shs EXCEPT
                             ![paid_by].total_you_get_back = @ + owe_amount]
             IN  [paid EXCEPT
                     ![user].total_you_owe = @ + owe_amount,
                     ![user].total_your_expense = @ + owe_amount,
                     ![user].user_vs_balance =
                         [WithBalance(@, paid_by) EXCEPT
                             ![paid_by].amount_owe = @ + owe_amount]]

\* BalanceSheetController.update: the body of the loop for one split.
update_split(shs, paid_by, split) ==
    LET user == split.user
        owe_amount == split.amount_owe
    IN  IF user = paid_by
        THEN [shs EXCEPT ![paid_by].total_your_expense = @ + owe_amount]
        ELSE LET paid == [shs EXCEPT
                             ![paid_by].total_you_get_back = @ + owe_amount,
                             ![paid_by].user_vs_balance =
                                 [WithBalance(@, user) EXCEPT
                                     ![user].amount_get_back = @ + owe_amount]]
             IN  [paid EXCEPT
                     ![user].total_you_owe = @ + owe_amount,
                     ![user].total_your_expense = @ + owe_amount,
                     ![user].user_vs_balance =
                         [WithBalance(@, paid_by) EXCEPT
                             ![paid_by].amount_owe = @ + owe_amount]]

\* BalanceSheetController.update: for split in splits
RECURSIVE update_splits(_, _, _)
update_splits(shs, paid_by, splits) ==
    IF splits = <<>> THEN shs
    ELSE update_splits(update_split(shs, paid_by, Head(splits)), paid_by, Tail(splits))

\* BalanceSheetController.update
update(shs, paid_by, splits, amount) ==
    update_splits([shs EXCEPT ![paid_by].total_payment = @ + amount], paid_by, splits)

\* A changed create_expense: the sheets are updated before the splits are validated.
create_expense_updates_first(shs, amount, splits, split_type, paid_by) ==
    [sheets |-> update(shs, paid_by, splits, amount),
     raised |-> validate(split_type, splits, amount)]

\* ExpenseController.create_expense: the sheets after the call and its exception.
create_expense(shs, amount, splits, split_type, paid_by) ==
    LET raised == validate(split_type, splits, amount) IN
    IF raised # None
    THEN [sheets |-> shs, raised |-> raised]
    ELSE [sheets |-> update(shs, paid_by, splits, amount), raised |-> None]

SplitInit ==
    /\ sheets = [u \in Users |-> UserExpenseBalanceSheet]
    /\ expense = None
    /\ expenses = 0

Init == MachineInit /\ ShelfInit /\ LoggerInit /\ SplitInit

Machine ==
    [state |-> state, shelves |-> shelves,
     inserted_coins |-> inserted_coins, selected_code |-> selected_code]

Becomes(m) ==
    /\ state' = m.state
    /\ shelves' = m.shelves
    /\ inserted_coins' = m.inserted_coins
    /\ selected_code' = m.selected_code

\* vm.insert_coin(coin)
InsertCoin ==
    \E coin \in CoinInputs :
        /\ Len(inserted_coins) < MaxCoins
        /\ LET r == insert_coin(Machine, coin) IN
           /\ Becomes(r.m)
           /\ result' = r.res
           /\ paid_since' = IF r.res.raised = None
                            THEN paid_since + CoinValue[coin] ELSE paid_since
        /\ UNCHANGED <<shelfVars, loggerVars, splitVars>>

\* vm.select_product(code)
SelectProduct ==
    \E code \in CodeInputs :
        /\ LET r == select_product(Machine, code) IN
           /\ Becomes(r.m)
           /\ result' = r.res
           /\ paid_since' = IF r.res.raised = None THEN 0 ELSE paid_since
        /\ UNCHANGED <<shelfVars, loggerVars, splitVars>>

\* vm.inventory.add_item(code, item), as load_items calls it
AddItem ==
    \E code \in CodeInputs, item \in ItemInputs :
        /\ Stock(shelves) < MaxItems
        /\ LET r == Inventory_add_item(shelves, code, item) IN
           /\ shelves' = r.shelves
           /\ result' = Result("add_item", Some(code), None, Some(item), None,
                               r.raised, None)
        /\ UNCHANGED <<state, inserted_coins, selected_code, paid_since>>
        /\ UNCHANGED <<shelfVars, loggerVars, splitVars>>

Next == InsertCoin \/ SelectProduct \/ AddItem

Spec == Init /\ [][Next]_vars

----------------------------------------------------------------------------
(* SpecCalls: every public method of the controller and of its inventory *)

\* vm.inventory.get_item(code), called on the inventory itself
GetItem ==
    \E code \in CodeInputs :
        /\ LET r == Inventory_get_item(shelves, code) IN
           /\ shelves' = r.shelves
           /\ result' = [Result("get_item", Some(code), None, r.item, None,
                                r.raised, None) EXCEPT !.returned = r.item]
        /\ UNCHANGED <<state, inserted_coins, selected_code, paid_since>>
        /\ UNCHANGED <<shelfVars, loggerVars, splitVars>>

\* vm.reset(), called by the caller: it ends the transaction as select_product does
Reset ==
    /\ Becomes(reset(Machine))
    /\ result' = Result("reset", None, None, None, None, None, None)
    /\ paid_since' = 0
    /\ UNCHANGED <<shelfVars, loggerVars, splitVars>>

\* vm.inventory.has_items()
HasItems ==
    /\ result' = [Result("has_items", None, None, None, None, None, None)
                     EXCEPT !.returned = Some(Inventory_has_items(shelves))]
    /\ UNCHANGED <<state, shelves, inserted_coins, selected_code, paid_since>>
    /\ UNCHANGED <<shelfVars, loggerVars, splitVars>>

\* vm.display_inventory()
Display ==
    /\ result' = [Result("display", None, None, None, None, None, None)
                     EXCEPT !.printed = Inventory_display(shelves)]
    /\ UNCHANGED <<state, shelves, inserted_coins, selected_code, paid_since>>
    /\ UNCHANGED <<shelfVars, loggerVars, splitVars>>

NextCalls ==
    InsertCoin \/ SelectProduct \/ AddItem \/ GetItem \/ Reset \/ HasItems \/ Display

SpecCalls == Init /\ [][NextCalls]_vars

----------------------------------------------------------------------------
(* SpecShelf: one ItemShelf *)

\* shelf.add_item(item)
ShelfAdd ==
    \E item \in ItemInputs :
        /\ Len(added) < MaxAdds
        /\ one_shelf' = ItemShelf_add_item(one_shelf, item)
        /\ added' = Append(added, item)
        /\ restocked' = IF one_shelf.items = <<>> /\ removed # <<>>
                        THEN restocked + 1 ELSE restocked
        /\ shelf_op' = "add_item"
        /\ UNCHANGED removed
        /\ UNCHANGED <<machineVars, loggerVars, splitVars>>

\* shelf.remove_item()
ShelfRemove ==
    LET r == ItemShelf_remove_item(one_shelf) IN
    /\ one_shelf' = r.shelf
    /\ removed' = removed \o r.item
    /\ shelf_op' = IF r.raised = None THEN "remove_item" ELSE "remove_item raised"
    /\ UNCHANGED <<added, restocked>>
    /\ UNCHANGED <<machineVars, loggerVars, splitVars>>

NextShelf == ShelfAdd \/ ShelfRemove

SpecShelf == Init /\ [][NextShelf]_vars

----------------------------------------------------------------------------
(* SpecLogger: threads calling Logger.get_instance *)

\* A thread calls Logger.get_instance(config_level, config_appender).
GetInstanceCall(t) ==
    \E level \in LevelInputs, appender \in AppenderInputs :
        /\ pc[t] = "idle"
        /\ calls < MaxCalls
        /\ calls' = calls + 1
        /\ call' = [call EXCEPT ![t] = Some(Logger(level, appender))]
        /\ pc' = [pc EXCEPT ![t] = "acquire"]
        /\ UNCHANGED <<lock, instances, loggers, handed>>
        /\ UNCHANGED <<machineVars, shelfVars, splitVars>>

\* with cls._lock: (entry)
GetInstanceAcquire(t) ==
    /\ pc[t] = "acquire"
    /\ LockIsFree(lock)
    /\ lock' = t
    /\ pc' = [pc EXCEPT ![t] = "check"]
    /\ UNCHANGED <<instances, loggers, call, handed, calls>>
    /\ UNCHANGED <<machineVars, shelfVars, splitVars>>

\* if key not in cls._instances:
GetInstanceCheck(t) ==
    /\ pc[t] = "check"
    /\ pc' = [pc EXCEPT ![t] = IF KeyOf(t) \in DOMAIN instances
                               THEN "release" ELSE "store"]
    /\ UNCHANGED <<lock, instances, loggers, call, handed, calls>>
    /\ UNCHANGED <<machineVars, shelfVars, splitVars>>

\* cls._instances[key] = Logger(config_level, config_appender)
GetInstanceStore(t) ==
    /\ pc[t] = "store"
    /\ loggers' = Append(loggers, call[t][1])
    /\ instances' = SetItem(instances, KeyOf(t), Len(loggers) + 1)
    /\ pc' = [pc EXCEPT ![t] = "release"]
    /\ UNCHANGED <<lock, call, handed, calls>>
    /\ UNCHANGED <<machineVars, shelfVars, splitVars>>

\* with cls._lock: (exit)
GetInstanceRelease(t) ==
    /\ pc[t] = "release"
    /\ lock' = 0
    /\ pc' = [pc EXCEPT ![t] = "return"]
    /\ UNCHANGED <<instances, loggers, call, handed, calls>>
    /\ UNCHANGED <<machineVars, shelfVars, splitVars>>

\* return cls._instances[key]
GetInstanceReturn(t) ==
    /\ pc[t] = "return"
    /\ handed' = handed \cup {<<KeyOf(t), instances[KeyOf(t)], call[t][1].config_appender>>}
    /\ pc' = [pc EXCEPT ![t] = "idle"]
    /\ UNCHANGED <<lock, instances, loggers, call, calls>>
    /\ UNCHANGED <<machineVars, shelfVars, splitVars>>

NextLogger ==
    \E t \in Threads :
        \/ GetInstanceCall(t)
        \/ GetInstanceAcquire(t)
        \/ GetInstanceCheck(t)
        \/ GetInstanceStore(t)
        \/ GetInstanceRelease(t)
        \/ GetInstanceReturn(t)

SpecLogger == Init /\ [][NextLogger]_vars

----------------------------------------------------------------------------
(* SpecSplit: expenses created on the users' balance sheets *)

\* expense_ctrl.create_expense(expense_id, desc, amount, splits, split_type, paid_by)
CreateExpense ==
    \E amount \in AmountInputs, splits \in SplitLists(MaxSplits),
       split_type \in SplitTypeInputs, paid_by \in Users :
        /\ expenses < MaxExpenses
        /\ expenses' = expenses + 1
        /\ LET r == create_expense(sheets, amount, splits, split_type, paid_by) IN
           /\ sheets' = r.sheets
           /\ expense' = Some([paid_by |-> paid_by, raised |-> r.raised])
        /\ UNCHANGED <<machineVars, shelfVars, loggerVars>>

NextSplit == CreateExpense

SpecSplit == Init /\ [][NextSplit]_vars

----------------------------------------------------------------------------
(* Properties *)

\* The step is select_product(c), called with the machine in HAS_MONEY.
SelectsWithFunds(c) ==
    /\ state = "HAS_MONEY"
    /\ result'.op = "select_product"
    /\ result'.code = Some(c)

\* The number of items on each shelf.
Counts(shs) == [i \in DOMAIN shs |-> Len(shs[i].items)]

\* Shelf code c exists and its shelf holds an item.
Stocked(c) ==
    /\ FindShelf(shelves, c) # 0
    /\ shelves[FindShelf(shelves, c)].items # <<>>

\* The item select_product(c) finds at the head of shelf c.
HeadItem(c) == Head(shelves[FindShelf(shelves, c)].items)

\* C1: select_product(c) in HAS_MONEY with total T below the price P of the head
\* item of shelf c dispenses nothing and leaves the number of items on every shelf,
\* shelf c included, as it was before the call.
C1_InsufficientFundsKeepsStock ==
    [][\A c \in CodeInputs :
          (/\ SelectsWithFunds(c)
           /\ Stocked(c)
           /\ HeadItem(c).price > SumValues(inserted_coins))
          => /\ result'.printed[1].kind # "Dispensing"
             /\ Counts(shelves') = Counts(shelves)]_vars

\* C2: select_product(c) in HAS_MONEY with total T, on a stocked shelf c whose head
\* item has price P <= T, dispenses that head item, reports the change T - P and
\* takes exactly one item, the head, from shelf c and none from another shelf.
C2_DispenseGivesChange ==
    [][\A c \in CodeInputs :
          (/\ SelectsWithFunds(c)
           /\ Stocked(c)
           /\ HeadItem(c).price <= SumValues(inserted_coins))
          => LET i == FindShelf(shelves, c) IN
             /\ result'.item = Some(HeadItem(c))
             /\ result'.printed[1].kind = "Dispensing"
             /\ result'.printed[1].text = HeadItem(c).type
             /\ result'.printed[1].change
                    = Some(SumValues(inserted_coins) - HeadItem(c).price)
             /\ result'.raised = None
             /\ shelves'[i].items = Tail(shelves[i].items)
             /\ Counts(shelves') = [Counts(shelves) EXCEPT ![i] = @ - 1]]_vars

\* C2's case: shelf 101 held three items of price 10, the coins were 10 and 5, and
\* select_product(101) dispensed with change 5, leaving two items.
C2_Witness ==
    /\ result.op = "select_product"
    /\ result.code = Some(BaseCode + 1)
    /\ result.total = Some(15)
    /\ result.item = Some(Item("Coke", 10))
    /\ result.printed[1].kind = "Dispensing"
    /\ result.printed[1].change = Some(5)
    /\ Len(shelves[2].items) = 2

\* C3: after a select_product call, whatever its outcome, the state is IDLE, no
\* coin is inserted and no code is selected.
C3_SelectEndsIdle ==
    result.op = "select_product"
        => /\ state = "IDLE"
           /\ inserted_coins = <<>>
           /\ selected_code = None

\* C3's case: a select_product call that failed on insufficient funds has ended.
C3_Witness ==
    /\ result.op = "select_product"
    /\ result.raised = None
    /\ result.printed[1].kind = "Error"
    /\ result.printed[1].text = "Insufficient funds"
    /\ state = "IDLE"

\* C4: select_product(c) called in IDLE fails with the invalid-state error for every
\* code c and changes nothing: the state stays IDLE, the coin list empty, the
\* selected code unset and every shelf as it was.
C4_SelectInIdleRejected ==
    [][(state = "IDLE" /\ result'.op = "select_product")
          => /\ result'.raised = Some("Insert coins before selecting item")
             /\ result'.printed = None
             /\ result'.item = None
             /\ state' = "IDLE"
             /\ inserted_coins = <<>> /\ inserted_coins' = <<>>
             /\ selected_code = None /\ selected_code' = None
             /\ shelves' = shelves]_vars

\* C4's case: select_product of a stocked shelf's code was rejected in IDLE.
C4_Witness ==
    /\ result.op = "select_product"
    /\ result.raised = Some("Insert coins before selecting item")
    /\ Stocked(result.code[1])
    /\ state = "IDLE"

\* C5: on one shelf, under any interleaving of add_item and remove_item, the items
\* remove_item has returned are, in order, the first items that were added: the
\* k-th successful remove_item returns the k-th item added (FIFO).
C5_ShelfIsFifo ==
    /\ Len(removed) <= Len(added)
    /\ removed = SubSeq(added, 1, Len(removed))
    /\ one_shelf.items = SubSeq(added, Len(removed) + 1, Len(added))

\* C5's case: three items of two kinds went through the shelf, which was emptied
\* and restocked in between, and all three were returned.
C5_Witness ==
    /\ restocked >= 1
    /\ Len(added) = 3
    /\ removed = added
    /\ added[1] # added[2]

\* C6: in every reachable state, from the construction of the inventory on, every
\* shelf has is_sold_out true exactly when it holds no item.
C6_SoldOutIffEmpty ==
    \A i \in DOMAIN shelves :
        shelves[i].is_sold_out <=> (shelves[i].items = <<>>)

\* C7: right after every mutating shelf operation (add_item, a remove_item that
\* returns an item, a remove_item that fails on an empty shelf) the shelf's
\* is_sold_out is true exactly when it holds no item.
C7_FlagAfterMutation ==
    shelf_op \in {"add_item", "remove_item", "remove_item raised"}
        => (one_shelf.is_sold_out <=> (one_shelf.items = <<>>))

\* C7's case: add_item restocked a shelf that removals had emptied (and marked
\* sold out), and the shelf holds an item again.
C7_Witness ==
    /\ shelf_op = "add_item"
    /\ restocked >= 1
    /\ Len(one_shelf.items) = 1
    /\ ~one_shelf.is_sold_out

\* C8: when select_product(c) is called in HAS_MONEY and the retrieval fails, the
\* outcome is the invalid-shelf-code error if no shelf has code c and the
\* out-of-stock error if shelf c is empty; no item is dispensed, no change is
\* reported, no shelf's item count changes, the coins are discarded and the
\* machine is IDLE.
C8_RetrievalFailure ==
    [][\A c \in CodeInputs :
          (SelectsWithFunds(c) /\ ~Stocked(c))
          => /\ result'.printed[1].kind = "Error"
             /\ result'.printed[1].text
                    = (IF FindShelf(shelves, c) = 0
                       THEN "Invalid shelf code" ELSE "Item out of stock")
             /\ result'.item = None
             /\ result'.printed[1].change = None
             /\ Counts(shelves') = Counts(shelves)
             /\ inserted_coins # <<>> /\ inserted_coins' = <<>>
             /\ state' = "IDLE"]_vars

\* C8's case: shelf 101 was empty, one coin of 10 was inserted and
\* select_product(101) reported out of stock, while another shelf holds items.
C8_Witness ==
    /\ result.op = "select_product"
    /\ result.code = Some(BaseCode + 1)
    /\ result.total = Some(10)
    /\ result.printed[1].text = "Item out of stock"
    /\ shelves[2].items = <<>>
    /\ shelves[1].items # <<>>
    /\ state = "IDLE"

\* C9: the total select_product compares with the price is the sum of the values
\* of the coins inserted since the last resolved select_product call (or since
\* construction): insertions add up and no coin of an earlier transaction counts.
C9_TotalIsCoinsSinceLastSelect ==
    [][(state = "HAS_MONEY" /\ result'.op = "select_product")
          => /\ result'.total = Some(paid_since)
             /\ paid_since = SumValues(inserted_coins)]_vars

\* C9's case: a select_product call on shelf 101 saw the total 15 of its two
\* coins; shelf 100 was emptied by select_product calls of earlier transactions.
C9_Witness ==
    /\ result.op = "select_product"
    /\ result.code = Some(BaseCode + 1)
    /\ result.total = Some(15)
    /\ shelves[1].is_sold_out

\* The outcome select_product(c) is to give with the machine in HAS_MONEY.
Outcome(c) ==
    IF FindShelf(shelves, c) = 0
    THEN Line("Error", "Invalid shelf code", None, None, None, None)
    ELSE IF ~Stocked(c)
    THEN Line("Error", "Item out of stock", None, None, None, None)
    ELSE IF HeadItem(c).price > SumValues(inserted_coins)
    THEN Line("Error", "Insufficient funds", None,
              Some(HeadItem(c).price), Some(SumValues(inserted_coins)), None)
    ELSE Line("Dispensing", HeadItem(c).type, None, None, None,
              Some(SumValues(inserted_coins) - HeadItem(c).price))

\* C10: select_product(c), called in HAS_MONEY, gives its caller a result (a
\* returned value or an exception) for one of the four outcomes, chosen by the
\* shelf's existence, its stock and the price against the total; the error kind
\* and its context reach the caller.
C10_OutcomeReachesCaller ==
    [][\A c \in CodeInputs :
          SelectsWithFunds(c)
          => /\ result'.printed = Some(Outcome(c))
             /\ (result'.returned # None \/ result'.raised # None)]_vars


\* The codes of a list of shelves, in order.
Codes(shs) == [i \in DOMAIN shs |-> shs[i].code]

\* C11: the shelf codes of the inventory are those of its construction, the
\* distinct codes 100 .. 100+size-1 in order, in every reachable state: no call of
\* add_item, get_item, insert_coin, select_product or reset adds, removes,
\* duplicates or renumbers a shelf.
C11_ShelfCodesFixed ==
    /\ Len(shelves) = NumShelves
    /\ Codes(shelves) = [i \in 1 .. NumShelves |-> BaseCode + (i - 1)]
    /\ \A i, j \in DOMAIN shelves : shelves[i].code = shelves[j].code => i = j

\* C11's case: after calls with an unknown code and changes of stock (a get_item
\* emptied shelf 100, shelf 101 is stocked, the last call was a reset).
C11_Witness ==
    /\ result.op = "reset"
    /\ shelves[1].is_sold_out
    /\ shelves[2].items # <<>>
    /\ Codes(shelves) = <<BaseCode, BaseCode + 1>>

\* C12: Inventory.add_item(code, item) and Inventory.get_item(code) with a code of
\* no shelf raise the invalid-shelf-code error and leave every shelf as it was;
\* with a shelf's code they act on that shelf only, add_item appending the item at
\* its tail and get_item removing its head (or failing on it when it is empty).
C12_InventoryActsOnOneShelf ==
    [][\A c \in CodeInputs :
          (result'.op \in {"add_item", "get_item"} /\ result'.code = Some(c))
          => LET i == FindShelf(shelves, c) IN
             IF i = 0
             THEN /\ result'.raised = Some("Invalid shelf code")
                  /\ shelves' = shelves
             ELSE /\ \A j \in DOMAIN shelves : j # i => shelves'[j] = shelves[j]
                  /\ DOMAIN shelves' = DOMAIN shelves
                  /\ result'.op = "add_item"
                       => /\ result'.raised = None
                          /\ shelves'[i].items
                                 = Append(shelves[i].items, result'.item[1])
                  /\ (result'.op = "get_item" /\ shelves[i].items # <<>>)
                       => /\ result'.raised = None
                          /\ result'.returned = Some(Head(shelves[i].items))
                          /\ shelves'[i].items = Tail(shelves[i].items)
                  /\ (result'.op = "get_item" /\ shelves[i].items = <<>>)
                       => /\ result'.raised = Some("Item out of stock")
                          /\ shelves'[i].items = <<>>]_vars

\* C12's case: add_item with an unknown code raised while both shelves hold items.
C12_Witness ==
    /\ result.op = "add_item"
    /\ result.code = Some(BaseCode + NumShelves)
    /\ result.raised = Some("Invalid shelf code")
    /\ shelves[1].items # <<>>
    /\ shelves[2].items # <<>>

\* C13: has_items returns true exactly when some shelf holds an item, and neither
\* has_items nor display raises or changes the shelves, their flags, the
\* controller's state or the inserted coins.
C13_QueriesArePure ==
    [][(result'.op \in {"has_items", "display"})
          => /\ result'.raised = None
             /\ shelves' = shelves
             /\ state' = state
             /\ inserted_coins' = inserted_coins
             /\ selected_code' = selected_code
             /\ result'.op = "has_items"
                  => result'.returned
                         = Some(\E i \in DOMAIN shelves : shelves[i].items # <<>>)
             /\ result'.op = "display"
                  => result'.printed
                         = [i \in DOMAIN shelves |->
                              [code |-> shelves[i].code,
                               items |-> Len(shelves[i].items),
                               sold_out |-> shelves[i].is_sold_out]]]_vars

\* C13's case: has_items answered false on a new inventory, whose shelves are
\* empty and not flagged sold out, with coins inserted.
C13_Witness ==
    /\ result.op = "has_items"
    /\ result.returned = Some(FALSE)
    /\ \A i \in DOMAIN shelves : shelves[i].items = <<>> /\ ~shelves[i].is_sold_out
    /\ state = "HAS_MONEY"

\* C14: remove_item on a shelf without items raises the out-of-stock error,
\* returns no item, leaves the shelf empty and leaves is_sold_out true, whatever
\* the flag was before.
C14_EmptyRemoveMarksSoldOut ==
    [][(one_shelf.items = <<>> /\ shelf_op' # "add_item")
          => /\ shelf_op' = "remove_item raised"
             /\ ItemShelf_remove_item(one_shelf).raised = Some("Item out of stock")
             /\ removed' = removed
             /\ one_shelf'.items = <<>>
             /\ one_shelf'.is_sold_out]_vars

\* C14's case: remove_item failed on a shelf that was never stocked, and the shelf
\* is now flagged sold out.
C14_Witness ==
    /\ shelf_op = "remove_item raised"
    /\ added = <<>>
    /\ one_shelf.items = <<>>
    /\ one_shelf.is_sold_out

\* C15: the state is IDLE or HAS_MONEY before and after every call, so insert_coin
\* never raises; each insert_coin appends exactly its coin, leaves the machine in
\* HAS_MONEY and changes no shelf.
C15_InsertCoinAlwaysAccepted ==
    [][/\ state \in {"IDLE", "HAS_MONEY"}
       /\ state' \in {"IDLE", "HAS_MONEY"}
       /\ result'.op = "insert_coin"
            => /\ result'.raised = None
               /\ inserted_coins' = Append(inserted_coins, result'.coin[1])
               /\ state' = "HAS_MONEY"
               /\ shelves' = shelves]_vars

\* C15's case: a coin was accepted as the second of a transaction that follows a
\* resolved one (shelf 100 was emptied by an earlier call).
C15_Witness ==
    /\ result.op = "insert_coin"
    /\ result.raised = None
    /\ Len(inserted_coins) = 2
    /\ state = "HAS_MONEY"
    /\ shelves[1].is_sold_out

\* C16: between calls the machine is in HAS_MONEY exactly when the list of
\* inserted coins is not empty, and no code is selected.
C16_FundsIffCoins ==
    /\ (state = "HAS_MONEY") <=> (inserted_coins # <<>>)
    /\ state = "IDLE" => inserted_coins = <<>>
    /\ selected_code = None

\* C16's case: the machine is IDLE without coins after a select_product call that
\* dispensed an item.
C16_Witness ==
    /\ result.op = "select_product"
    /\ result.printed # None
    /\ result.printed[1].kind = "Dispensing"
    /\ state = "IDLE"
    /\ inserted_coins = <<>>

\* C17: the item count of a shelf changes only by +1 in an add_item with that
\* shelf's code and by -1 in a select_product of that shelf's code, and every
\* decrease is one item reported as dispensed: no item leaves a shelf without
\* being dispensed.
C17_StockAccounting ==
    [][\A i \in DOMAIN shelves :
          Len(shelves'[i].items) # Len(shelves[i].items)
          => \/ /\ Len(shelves'[i].items) = Len(shelves[i].items) + 1
                /\ result'.op = "add_item"
                /\ result'.code = Some(shelves[i].code)
             \/ /\ Len(shelves'[i].items) = Len(shelves[i].items) - 1
                /\ result'.op = "select_product"
                /\ result'.code = Some(shelves[i].code)
                /\ result'.printed[1].kind = "Dispensing"]_vars


\* The key under which a Logger object is registered.
LoggerKey(l) == Key(l.config_level, l.config_appender)

\* C18: under any interleaving of get_instance calls from several threads, at most
\* one Logger is ever created per key (level, appender class name), every caller
\* with that key is returned that same Logger, a stored entry is never replaced
\* or removed, and the Logger returned is the one bound to the appender of the
\* call that created it, whatever appender object of that class the caller passed.
C18_OneLoggerPerKey ==
    [][/\ \A i, j \in DOMAIN loggers' :
             LoggerKey(loggers'[i]) = LoggerKey(loggers'[j]) => i = j
       /\ \A k \in DOMAIN instances :
             k \in DOMAIN instances' /\ instances'[k] = instances[k]
       /\ \A h \in handed' :
             /\ h[2] \in DOMAIN loggers'
             /\ LoggerKey(loggers'[h[2]]) = h[1]
             /\ instances'[h[1]] = h[2]
       /\ \A g, h \in handed' : g[1] = h[1] => g[2] = h[2]]_vars

\* C18's case: two calls with the same key and different ConsoleAppender objects
\* have returned, both with the one Logger of that key, which is bound to the
\* appender of one of them only; another thread is inside get_instance.
C18_Witness ==
    /\ \E g, h \in handed :
          /\ g[1] = h[1]
          /\ g[3] # h[3]
          /\ g[2] = h[2]
          /\ loggers[h[2]].config_appender = g[3]
    /\ \E t \in Threads : pc[t] \in {"acquire", "check"}
    /\ Len(loggers) = 1


\* What user a's sheet records as owed to user b, and as to get back from b.
Owes(shs, a, b) ==
    IF b \in DOMAIN shs[a].user_vs_balance
    THEN shs[a].user_vs_balance[b].amount_owe ELSE 0

GetsBack(shs, a, b) ==
    IF b \in DOMAIN shs[a].user_vs_balance
    THEN shs[a].user_vs_balance[b].amount_get_back ELSE 0

\* The sum of f(u) over the users u of a set.
RECURSIVE SumOver(_, _, _, _)
SumOver(F(_, _, _), shs, a, others) ==
    IF others = {} THEN 0
    ELSE LET b == CHOOSE x \in others : TRUE IN
         F(shs, a, b) + SumOver(F, shs, a, others \ {b})

\* The balances of sheets shs are symmetric and add up to each sheet's totals.
Balanced(shs) ==
    /\ \A a, b \in Users :
          a # b => /\ Owes(shs, a, b) = GetsBack(shs, b, a)
                   /\ (b \in DOMAIN shs[a].user_vs_balance)
                          <=> (a \in DOMAIN shs[b].user_vs_balance)
    /\ \A a \in Users :
          /\ a \notin DOMAIN shs[a].user_vs_balance
          /\ shs[a].total_you_owe = SumOver(Owes, shs, a, Users \ {a})
          /\ shs[a].total_you_get_back = SumOver(GetsBack, shs, a, Users \ {a})

\* C19: after any sequence of create_expense calls with integer amounts, for every
\* two distinct users A and B what A's sheet records as owed to B equals what B's
\* sheet records as to get back from A, each sheet's total_you_owe and
\* total_you_get_back are the sums of its per-user balances, and a call that the
\* split validation rejects changes no sheet.
C19_BalancesSymmetric ==
    [][/\ Balanced(sheets')
       /\ (expenses' # expenses /\ expense'[1].raised # None) => sheets' = sheets]_vars

\* C19's case: two expenses were accepted, one paid by U1001 and one by U2001, and
\* each of the two owes the other and is to get back from the other.
C19_Witness ==
    /\ expenses = 2
    /\ expense[1].raised = None
    /\ Owes(sheets, "U1001", "U2001") > 0
    /\ GetsBack(sheets, "U1001", "U2001") > 0
    /\ Owes(sheets, "U3001", "U1001") > 0
    /\ sheets["U1001"].total_you_get_back
           = GetsBack(sheets, "U1001", "U2001") + GetsBack(sheets, "U1001", "U3001")

====
